---- MODULE Spec2Model ----
(***************************************************************************)
(* A model of acme-tools' DNS-01 challenge run: request_certificate        *)
(* (api.py) calling DNS01Challenge.__call__ and its context manager        *)
(* temporary_txt_records (challenge.py), against an abstract Provider, an  *)
(* abstract Resolver, an injected clock and the ACME client collaborator.  *)
(* Further specifications take the parts on their own: SpecNames the       *)
(* verification DNS names, SpecProvider the DigitalOceanProvider against   *)
(* its zone, SpecStatus raise_for_status, SpecResolver the dnspython       *)
(* resolver (SpecResolverFair with its steps kept running), SpecTwoRuns    *)
(* two runs sharing one zone, SpecPairing the grouping of domains with     *)
(* validation tokens, SpecRecordName the record name sent to the API.      *)
(***************************************************************************)
EXTENDS Integers, Sequences, FiniteSets, TLC

\* ------------------------------------------------------------------ bounds
MaxDomains == 2
MaxAuthz == 2
MaxResolveTime == 1
ShortTimeout == 10
MaxZone == 2
MaxCalls == 2
MaxLabels == 4

\* ------------------------------------------------------- program constants
DEFAULT_TIMEOUT == 120
PROPAGATION_TIMEOUT == 120
QUERY_INTERVAL == 2
RECORD_TTL == 30

VARIABLES
    nDomains,            \* len(self.domains)
    timeout,             \* request_certificate's timeout argument
    now,                 \* the value the injected clock returns
    callerDeadline,      \* deadline passed to __call__ (clock() + timeout)
    pc,                  \* position of the run
    challenges,          \* _challenges: the DNS-01 challenges of the order
    verification_tokens, \* list of (fqdn, value) pairs
    dns_records,         \* dns_records of temporary_txt_records
    stack,               \* callbacks of the ExitStack, oldest first
    deadline,            \* propagation deadline (line 129)
    rec,                 \* index of the record the propagation loop waits for
    index,               \* index of the answer_challenge loop
    exc,                 \* exception in flight when the finally block starts
    exc_details,         \* ExitStack.__exit__: exception currently pending
    pending_raise,       \* ExitStack.__exit__: a callback raised
    outcome,             \* what the run returned or raised
    createLog,           \* options of every provider.create_record call
    returned,            \* ids of the records provider.create_record returned
    nDeleteCalls,        \* id -> number of provider.delete_record calls
    deleteRaised,        \* ids whose provider.delete_record call raised
    observed,            \* ids observed propagated
    queried,             \* ids the resolver was queried for
    lastCall,            \* the most recent call to a collaborator
    queryStart,          \* clock value when the latest query or sleep began
    allEmpty,            \* every resolver answer so far was the empty list
    timeoutAt,           \* clock value when TimeoutError was raised
    answered,            \* challenges passed to answer_challenge
    finalized            \* poll_and_finalize: "no", "called", "returned"

\* The variables of the run of DNS01Challenge.
orchVars == <<nDomains, timeout, now, callerDeadline, pc, challenges,
              verification_tokens, dns_records, stack, deadline, rec, index,
              exc, exc_details, pending_raise, outcome, createLog, returned,
              nDeleteCalls, deleteRaised, observed, queried, lastCall,
              queryStart, allEmpty, timeoutAt, answered, finalized>>

VARIABLES
    domains,             \* self.domains, each a string of characters
    dnsNames             \* the DNS names derived so far, one per domain

\* The variables of the derivation of the verification DNS names.
nameVars == <<domains, dnsNames>>

VARIABLES
    zone,                \* the records the DigitalOcean API holds, as listed
    nextId,              \* the id the API gives the next record it creates
    nCalls,              \* calls made to the DigitalOceanProvider
    held,                \* the DORecords create_record has returned
    lastOp               \* the latest call: arguments, requests, result

\* The variables of the DigitalOceanProvider against its API.
provVars == <<zone, nextId, nCalls, held, lastOp>>

VARIABLES
    lastResponse         \* the latest response raise_for_status was given

\* The variables of raise_for_status.
statusVars == <<lastResponse>>

VARIABLES
    resolveArgs,         \* the fqdn and record_type resolve was called with
    resolverPc,          \* where DNSPythonResolver.resolve is
    climbDomain,         \* domain, in the loop of the NS and SOA lookups
    queryLog,            \* the queries sent to dnspython, with what they gave
    resolveResult,       \* the list resolve returned
    resolveRaised        \* the exception resolve raised, "None" without one

\* The variables of DNSPythonResolver.resolve.
resolverVars == <<resolveArgs, resolverPc, climbDomain, queryLog,
                  resolveResult, resolveRaised>>

VARIABLES
    runs,                \* two runs on one zone: domains, position, records
    alone                \* for each of them, the same run with the zone to itself

\* The variables of two runs sharing the zone.
runVars == <<runs, alone>>

VARIABLES
    acmeOrder,           \* the authorizations of the order, as the CA lists them
    pairTokens           \* verification_tokens, built from the order

\* The variables of the grouping of domains with validation tokens.
pairVars == <<acmeOrder, pairTokens>>

VARIABLES
    fqdnArg,             \* options.fqdn of a create_record call
    nameSent             \* the record name sent to the API for it

\* The variables of the derivation of the record name.
recordNameVars == <<fqdnArg, nameSent>>

\* The variables outside the run of DNS01Challenge.
auxVars == <<nameVars, provVars, statusVars, resolverVars, runVars, pairVars,
             recordNameVars>>

vars == <<orchVars, auxVars>>

\* ---------------------------------------------------------------- strings
\* A Python str is the sequence of its characters.
\* s[:n] and s[n:] of Python, which clip n to the length of s.
Take(s, n) == SubSeq(s, 1, IF n < Len(s) THEN n ELSE Len(s))
Drop(s, n) == SubSeq(s, n + 1, Len(s))

\* The index of the first "." of s, 0 when it has none.
FirstDot(s) ==
    IF \E i \in DOMAIN s : s[i] = "."
    THEN CHOOSE i \in DOMAIN s : s[i] = "." /\ \A j \in 1..(i - 1) : s[j] # "."
    ELSE 0

\* s.split("."): the pieces of s between its dots.
RECURSIVE SplitDots(_)
SplitDots(s) ==
    IF FirstDot(s) = 0 THEN <<s>>
    ELSE <<Take(s, FirstDot(s) - 1)>> \o SplitDots(Drop(s, FirstDot(s)))

\* ".".join(parts).
RECURSIVE JoinDots(_)
JoinDots(parts) ==
    IF Len(parts) = 0 THEN <<>>
    ELSE IF Len(parts) = 1 THEN parts[1]
    ELSE parts[1] \o <<".">> \o JoinDots(Tail(parts))

\* parts[-2:]: the last two elements, or all of them when there are fewer.
LastTwo(parts) ==
    SubSeq(parts, IF Len(parts) > 2 THEN Len(parts) - 1 ELSE 1, Len(parts))

\* The index at which sep first occurs in s as a substring, 0 when it does not.
FirstOccurrence(s, sep) ==
    LET At(i) == i + Len(sep) - 1 <= Len(s) /\ SubSeq(s, i, i + Len(sep) - 1) = sep
    IN IF \E i \in DOMAIN s : At(i)
       THEN CHOOSE i \in DOMAIN s : At(i) /\ \A j \in 1..(i - 1) : ~At(j)
       ELSE 0

\* s.split(sep)[0]: s up to the first occurrence of sep, all of s without one.
BeforeFirst(s, sep) ==
    IF FirstOccurrence(s, sep) = 0 THEN s
    ELSE Take(s, FirstOccurrence(s, sep) - 1)

\* Python's int(x / 60) for an integer x: the quotient truncated toward zero.
TruncMinutes(x) == IF x >= 0 THEN x \div 60 ELSE -((-x) \div 60)

\* ------------------------------------------------------------- exceptions
NoExc == [type |-> "None", at |-> "None"]
Exc(t, where) == [type |-> t, at |-> where]

CreateErrors == {"RateLimitExceededError", "ServerError"}
DeleteErrors == {"ResourceNotFoundError", "ServerError"}
AcmeErrors == {"ValidationError"}

\* --------------------------------------------------------- the ACME order
\* An authorization is the list of the type tags of its challenges.
ChallLists == {<<"http-01">>, <<"http-01", "dns-01">>}

Orders == UNION {[1..k -> ChallLists] : k \in 0..MaxAuthz}

\* challenge.py 50-55: the DNS-01 challenges of all authorizations, in order.
RECURSIVE Dns01OfAuthz(_, _, _)
Dns01OfAuthz(authz, a, p) ==
    IF p > Len(authz) THEN <<>>
    ELSE (IF authz[p] = "dns-01" THEN <<[authz |-> a, pos |-> p]>> ELSE <<>>)
         \o Dns01OfAuthz(authz, a, p + 1)

RECURSIVE CollectChallenges(_, _)
CollectChallenges(order, a) ==
    IF a > Len(order) THEN <<>>
    ELSE Dns01OfAuthz(order[a], a, 1) \o CollectChallenges(order, a + 1)

\* challenge.response_and_validation: the validation string of a challenge,
\* a string of characters (here numbers) unique to the challenge.
Validation(ch) == <<ch.authz, ch.pos>>

\* Mutant of NoChallenges: the check for an empty list is left out.
NoChallengesMutant(chs) == FALSE

\* challenge.py 57: "if not _challenges".
NoChallenges(chs) == chs = <<>>

\* challenge.py 74-80: domain i is grouped with _verification_tokens[i].
VerificationTokens(n, chs) ==
    [i \in 1..n |-> [fqdn |-> i, value |-> Validation(chs[i])]]

\* -------------------------------------------------- verification DNS names
\* challenge.py 20: DNS_LABEL = "_acme-challenge".
DNS_LABEL == <<"_", "a", "c", "m", "e", "-", "c", "h", "a", "l", "l", "e", "n", "g", "e">>

\* The domains a certificate is requested for.
DomainNames ==
    { <<"e", "x", "a", "m", "p", "l", "e", ".", "c", "o", "m">>,
      <<"*", ".", "e", "x", "a", "m", "p", "l", "e", ".", "c", "o", "m">>,
      <<"a", ".", "i", "o">>,
      <<"*", ".", "a", ".", "i", "o">>,
      <<"b", ".", "a", ".", "i", "o">>,
      <<"*", ".", "b", ".", "a", ".", "i", "o">>,
      <<"*", "a", ".", "i", "o">>,
      <<"a", ".", "*", ".", "i", "o">> }

\* Mutant of VerificationName: the wildcard marker is not stripped.
VerificationNameMutant(domain) == DNS_LABEL \o <<".">> \o domain

\* challenge.py 76-79: domain[2:] if domain[:2] == "*." else domain, prefixed
\* with DNS_LABEL + ".".
VerificationName(domain) ==
    DNS_LABEL \o <<".">> \o
        (IF Take(domain, 2) = <<"*", ".">> THEN Drop(domain, 2) ELSE domain)

\* ------------------------------------------------------------ the provider
\* Mutant of RecordOptions: append is left at false.
RecordOptionsMutant(tok) ==
    [fqdn |-> tok.fqdn, record_type |-> "TXT", record_value |-> tok.value,
     record_ttl |-> RECORD_TTL, append |-> FALSE,
     propagation_timeout |-> PROPAGATION_TIMEOUT,
     query_interval |-> QUERY_INTERVAL]

\* challenge.py 114-122: the options of every create_record call.
RecordOptions(tok) ==
    [fqdn |-> tok.fqdn, record_type |-> "TXT", record_value |-> tok.value,
     record_ttl |-> RECORD_TTL, append |-> TRUE,
     propagation_timeout |-> PROPAGATION_TIMEOUT,
     query_interval |-> QUERY_INTERVAL]

\* Provider.create_record's result: a Record for the options, with the
\* provider's identifier of it.
NewRecord(id, options) ==
    [id |-> id, fqdn |-> options.fqdn, type |-> options.record_type,
     data |-> options.record_value]

\* Mutant of RegisterCallback: the deletion is not registered.
RegisterCallbackMutant(s, record) == s

\* challenge.py 125: stack.callback(self.provider.delete_record, record).
RegisterCallback(s, record) == Append(s, record)

\* Mutant of RemainingCallbacks: a deletion that raises ends the cleanup, as
\* a plain loop over the records would.
RemainingCallbacksMutant(s, raised) ==
    IF raised THEN <<>> ELSE SubSeq(s, 1, Len(s) - 1)

\* challenge.py 156: ExitStack.__exit__ pops the newest callback before it
\* calls it, so the callbacks left are the same whether or not the call raises.
RemainingCallbacks(s, raised) == SubSeq(s, 1, Len(s) - 1)

\* ------------------------------------------------------------ the resolver
\* What a TXT query may answer for a record whose data is tok: nothing, the
\* token, a proper prefix of it, or strings that contain it.
ResolverAnswers(tok) ==
    { <<>>,
      <<tok>>,
      <<SubSeq(tok, 1, Len(tok) - 1)>>,
      <<tok \o <<0>>, <<0>> \o tok>> }

IsPrefix(s, t) == Len(s) <= Len(t) /\ SubSeq(t, 1, Len(s)) = s

\* Mutant of ValueFound: a value that is a prefix of the token, or that the
\* token is a prefix of, counts as found.
ValueFoundMutant(data, values) ==
    \E j \in DOMAIN values : IsPrefix(values[j], data) \/ IsPrefix(data, values[j])

\* challenge.py 140: "record.data in values", equality with an element.
ValueFound(data, values) == \E j \in DOMAIN values : values[j] = data

\* ------------------------------------------------------------------- calls
Call(kind, r, values) ==
    [kind |-> kind, rec |-> r, values |-> values, seq |-> 1 - lastCall.seq]

\* ------------------------------------------------------------------- Init
\* The variables outside the run hold nothing while the run is checked.
NamesIdle == domains = <<>> /\ dnsNames = <<>>

NoErr == [type |-> "None", minutes |-> 0]
Err(t) == [type |-> t, minutes |-> 0]

NoResponse == [status |-> 0, reset |-> [kind |-> "absent", value |-> 0]]

NoRecord ==
    [type |-> "None", domain |-> <<>>, fqdn |-> <<>>, name |-> <<>>,
     data |-> <<>>, ttl |-> 0, resource_id |-> 0]

NoOp ==
    [op |-> "none", fqdn |-> <<>>, record_type |-> "None", value |-> <<>>,
     ttl |-> 0, append |-> FALSE, record |-> NoRecord, requests |-> <<>>,
     error |-> NoErr, zoneBefore |-> <<>>]

ProvIdle ==
    /\ zone = <<>>
    /\ nextId = 1
    /\ nCalls = 0
    /\ held = {}
    /\ lastOp = NoOp

StatusIdle ==
    lastResponse = [response |-> NoResponse, clock |-> 0, raised |-> NoErr]

ResolverIdle ==
    /\ resolveArgs = [fqdn |-> <<>>, record_type |-> "None"]
    /\ resolverPc = "idle"
    /\ climbDomain = <<>>
    /\ queryLog = <<>>
    /\ resolveResult = <<>>
    /\ resolveRaised = "None"

RunsIdle == runs = <<>> /\ alone = <<>>

PairIdle == acmeOrder = <<>> /\ pairTokens = <<>>

RecordNameIdle == fqdnArg = <<>> /\ nameSent = <<>>

AuxIdle ==
    /\ NamesIdle
    /\ ProvIdle
    /\ StatusIdle
    /\ ResolverIdle
    /\ RunsIdle
    /\ PairIdle
    /\ RecordNameIdle

Init ==
    /\ AuxIdle
    /\ nDomains \in 1..MaxDomains
    /\ timeout \in {ShortTimeout, DEFAULT_TIMEOUT}
    /\ now = 0
    /\ callerDeadline = 0
    /\ pc = "init"
    /\ challenges = <<>>
    /\ verification_tokens = <<>>
    /\ dns_records = <<>>
    /\ stack = <<>>
    /\ deadline = 0
    /\ rec = 0
    /\ index = 0
    /\ exc = NoExc
    /\ exc_details = NoExc
    /\ pending_raise = FALSE
    /\ outcome = [kind |-> "none", error |-> NoExc]
    /\ createLog = <<>>
    /\ returned = {}
    /\ nDeleteCalls = [k \in 1..MaxDomains |-> 0]
    /\ deleteRaised = {}
    /\ observed = {}
    /\ queried = {}
    /\ lastCall = [kind |-> "none", rec |-> 0, values |-> <<>>, seq |-> 0]
    /\ queryStart = -1
    /\ allEmpty = TRUE
    /\ timeoutAt = -1
    /\ answered = <<>>
    /\ finalized = "no"

\* ---------------------------------------------------------------- actions
\* Entering the finally block of temporary_txt_records with exception e in
\* flight: stack.__exit__(*sys.exc_info()) starts from e (challenge.py 153-156).
EnterCleanup(e) ==
    /\ exc' = e
    /\ exc_details' = e
    /\ pending_raise' = FALSE
    /\ pc' = "cleanup"

\* api.py 48-49: deadline = clock() + timeout, then the challenge is run.
RequestCertificate ==
    /\ pc = "init"
    /\ callerDeadline' = now + timeout
    /\ pc' = "new_order"
    /\ UNCHANGED auxVars
    /\ UNCHANGED <<nDomains, timeout, now, challenges, verification_tokens,
                   dns_records, stack, deadline, rec, index, exc, exc_details,
                   pending_raise, outcome, createLog, returned, nDeleteCalls,
                   deleteRaised, observed, queried, lastCall, queryStart,
                   allEmpty, timeoutAt, answered, finalized>>

\* challenge.py 43-84: new_order returns an order; its DNS-01 challenges are
\* collected and grouped with the domains by position.
NewOrder ==
    /\ pc = "new_order"
    /\ \E order \in Orders :
        LET chs == CollectChallenges(order, 1) IN
        /\ challenges' = chs
        /\ lastCall' = Call("new_order", 0, <<>>)
        /\ IF NoChallenges(chs)
           THEN /\ outcome' = [kind |-> "raised",
                               error |-> Exc("RuntimeError", "__call__")]
                /\ pc' = "done"
                /\ UNCHANGED verification_tokens
           ELSE IF Len(chs) < nDomains
           THEN /\ outcome' = [kind |-> "raised",
                               error |-> Exc("IndexError", "__call__")]
                /\ pc' = "done"
                /\ UNCHANGED verification_tokens
           ELSE /\ verification_tokens' = VerificationTokens(nDomains, chs)
                /\ pc' = "creating"
                /\ UNCHANGED outcome
    /\ UNCHANGED auxVars
    /\ UNCHANGED <<nDomains, timeout, now, callerDeadline, dns_records, stack,
                   deadline, rec, index, exc, exc_details, pending_raise,
                   createLog, returned, nDeleteCalls, deleteRaised, observed,
                   queried, queryStart, allEmpty, timeoutAt, answered,
                   finalized>>

\* challenge.py 43: new_order raises; nothing has been created yet.
NewOrderFails ==
    /\ pc = "new_order"
    /\ \E e \in AcmeErrors :
        outcome' = [kind |-> "raised", error |-> Exc(e, "new_order")]
    /\ lastCall' = Call("new_order", 0, <<>>)
    /\ pc' = "done"
    /\ UNCHANGED auxVars
    /\ UNCHANGED <<nDomains, timeout, now, callerDeadline, challenges,
                   verification_tokens, dns_records, stack, deadline, rec,
                   index, exc, exc_details, pending_raise, createLog, returned,
                   nDeleteCalls, deleteRaised, observed, queried, queryStart,
                   allEmpty, timeoutAt, answered, finalized>>

\* challenge.py 111-127: create the next record; on success register its
\* deletion and append it, on failure leave the try block.
CreateRecord ==
    /\ pc = "creating"
    /\ Len(dns_records) < Len(verification_tokens)
    /\ LET options == RecordOptions(verification_tokens[Len(dns_records) + 1])
           id == Len(createLog) + 1
           record == NewRecord(id, options)
       IN
        /\ createLog' = Append(createLog, options)
        /\ lastCall' = Call("create_record", id, <<>>)
        /\ \/ /\ returned' = returned \cup {id}
              /\ stack' = RegisterCallback(stack, record)
              /\ dns_records' = Append(dns_records, record)
              /\ UNCHANGED <<pc, exc, exc_details, pending_raise>>
           \/ /\ \E e \in CreateErrors : EnterCleanup(Exc(e, "create_record"))
              /\ UNCHANGED <<returned, stack, dns_records>>
    /\ UNCHANGED auxVars
    /\ UNCHANGED <<nDomains, timeout, now, callerDeadline, challenges,
                   verification_tokens, deadline, rec, index, outcome,
                   nDeleteCalls, deleteRaised, observed, queried, queryStart,
                   allEmpty, timeoutAt, answered, finalized>>

\* challenge.py 129-130: all records created; deadline = self.clock() + 120.
StartWait ==
    /\ pc = "creating"
    /\ Len(dns_records) = Len(verification_tokens)
    /\ deadline' = now + PROPAGATION_TIMEOUT
    /\ rec' = 1
    /\ pc' = "polling"
    /\ UNCHANGED auxVars
    /\ UNCHANGED <<nDomains, timeout, now, callerDeadline, challenges,
                   verification_tokens, dns_records, stack, index, exc,
                   exc_details, pending_raise, outcome, createLog, returned,
                   nDeleteCalls, deleteRaised, observed, queried, lastCall,
                   queryStart, allEmpty, timeoutAt, answered, finalized>>

\* Mutant of NextRecord: the wait stays on the record it has just seen.
NextRecordMutant(r) == r

\* challenge.py 131, 141-143: break ends the while loop and the for loop
\* takes the next record of dns_records.
NextRecord(r) == r + 1

\* challenge.py 132-143: the clock is before the deadline; one resolver query
\* for the current record, which takes d on the clock.
PollQuery ==
    /\ pc = "polling"
    /\ rec <= Len(dns_records)
    /\ now < deadline
    /\ LET record == dns_records[rec] IN
       \E values \in ResolverAnswers(record.data), d \in 0..MaxResolveTime :
        /\ now' = now + d
        /\ queryStart' = now
        /\ queried' = queried \cup {record.id}
        /\ lastCall' = Call("resolve", record.id, values)
        /\ allEmpty' = (allEmpty /\ values = <<>>)
        /\ IF ValueFound(record.data, values)
           THEN /\ observed' = observed \cup {record.id}
                /\ rec' = NextRecord(rec)
                /\ pc' = "polling"
           ELSE /\ pc' = "sleeping"
                /\ UNCHANGED <<observed, rec>>
    /\ UNCHANGED auxVars
    /\ UNCHANGED <<nDomains, timeout, callerDeadline, challenges,
                   verification_tokens, dns_records, stack, deadline, index,
                   exc, exc_details, pending_raise, outcome, createLog,
                   returned, nDeleteCalls, deleteRaised, timeoutAt, answered,
                   finalized>>

\* challenge.py 145: time.sleep(2), then back to the while condition. The
\* injected clock is taken to follow the time the sleep takes.
Sleep ==
    /\ pc = "sleeping"
    /\ now' = now + QUERY_INTERVAL
    /\ queryStart' = now
    /\ lastCall' = Call("sleep", dns_records[rec].id, <<>>)
    /\ pc' = "polling"
    /\ UNCHANGED auxVars
    /\ UNCHANGED <<nDomains, timeout, callerDeadline, challenges,
                   verification_tokens, dns_records, stack, deadline, rec,
                   index, exc, exc_details, pending_raise, outcome, createLog,
                   returned, nDeleteCalls, deleteRaised, observed, queried,
                   allEmpty, timeoutAt, answered, finalized>>

\* challenge.py 132, 147-150: the clock reached the deadline with the current
\* record not propagated: TimeoutError.
PollTimeout ==
    /\ pc = "polling"
    /\ rec <= Len(dns_records)
    /\ now >= deadline
    /\ timeoutAt' = now
    /\ EnterCleanup(Exc("TimeoutError", "propagation"))
    /\ UNCHANGED auxVars
    /\ UNCHANGED <<nDomains, timeout, now, callerDeadline, challenges,
                   verification_tokens, dns_records, stack, deadline, rec,
                   index, outcome, createLog, returned, nDeleteCalls,
                   deleteRaised, observed, queried, lastCall, queryStart,
                   allEmpty, answered, finalized>>

\* challenge.py 152, 88-90: every record propagated; the with body starts.
Yield ==
    /\ pc = "polling"
    /\ rec > Len(dns_records)
    /\ index' = 1
    /\ pc' = "answering"
    /\ UNCHANGED auxVars
    /\ UNCHANGED <<nDomains, timeout, now, callerDeadline, challenges,
                   verification_tokens, dns_records, stack, deadline, rec,
                   exc, exc_details, pending_raise, outcome, createLog,
                   returned, nDeleteCalls, deleteRaised, observed, queried,
                   lastCall, queryStart, allEmpty, timeoutAt, answered,
                   finalized>>

\* Mutant of AllAnswered: the loop over _challenges ends one challenge early.
AllAnsweredMutant(i, chs) == i >= Len(chs)

\* challenge.py 90: the for loop over _challenges has ended.
AllAnswered(i, chs) == i > Len(chs)

\* challenge.py 90-95: answer_challenge for the next challenge of _challenges.
AnswerChallenge ==
    /\ pc = "answering"
    /\ ~AllAnswered(index, challenges)
    /\ answered' = Append(answered, challenges[index])
    /\ lastCall' = Call("answer_challenge", index, <<>>)
    /\ \/ /\ index' = index + 1
          /\ UNCHANGED <<pc, exc, exc_details, pending_raise>>
       \/ /\ \E e \in AcmeErrors : EnterCleanup(Exc(e, "answer_challenge"))
          /\ UNCHANGED index
    /\ UNCHANGED auxVars
    /\ UNCHANGED <<nDomains, timeout, now, callerDeadline, challenges,
                   verification_tokens, dns_records, stack, deadline, rec,
                   outcome, createLog, returned, nDeleteCalls, deleteRaised,
                   observed, queried, queryStart, allEmpty, timeoutAt,
                   finalized>>

\* challenge.py 97: return poll_and_finalize(order, deadline); leaving the
\* with block runs the finally block, with or without an exception.
PollAndFinalize ==
    /\ pc = "answering"
    /\ AllAnswered(index, challenges)
    /\ lastCall' = Call("poll_and_finalize", 0, <<>>)
    /\ \/ /\ finalized' = "returned"
          /\ EnterCleanup(NoExc)
       \/ /\ finalized' = "called"
          /\ \E e \in AcmeErrors \cup {"TimeoutError"} :
                EnterCleanup(Exc(e, "poll_and_finalize"))
    /\ UNCHANGED auxVars
    /\ UNCHANGED <<nDomains, timeout, now, callerDeadline, challenges,
                   verification_tokens, dns_records, stack, deadline, rec,
                   index, outcome, createLog, returned, nDeleteCalls,
                   deleteRaised, observed, queried, queryStart, allEmpty,
                   timeoutAt, answered>>

\* challenge.py 125, 156: ExitStack.__exit__ pops the newest callback and
\* calls provider.delete_record(record); an exception it raises replaces the
\* pending one and the loop goes on.
DeleteRecord ==
    /\ pc = "cleanup"
    /\ stack # <<>>
    /\ LET record == stack[Len(stack)] IN
        /\ nDeleteCalls' = [nDeleteCalls EXCEPT ![record.id] = @ + 1]
        /\ lastCall' = Call("delete_record", record.id, <<>>)
        /\ \/ /\ stack' = RemainingCallbacks(stack, FALSE)
              /\ UNCHANGED <<exc_details, pending_raise, deleteRaised>>
           \/ /\ stack' = RemainingCallbacks(stack, TRUE)
              /\ \E e \in DeleteErrors : exc_details' = Exc(e, "delete_record")
              /\ pending_raise' = TRUE
              /\ deleteRaised' = deleteRaised \cup {record.id}
    /\ UNCHANGED auxVars
    /\ UNCHANGED <<nDomains, timeout, now, callerDeadline, pc, challenges,
                   verification_tokens, dns_records, deadline, rec, index, exc,
                   outcome, createLog, returned, observed, queried, queryStart,
                   allEmpty, timeoutAt, answered, finalized>>

\* What leaves the finally block (challenge.py 156, 88-97): the exception of
\* the last callback that raised, else the exception that was in flight, else
\* the value the with body returned.
RunOutcome(pending, details, inflight) ==
    IF pending THEN [kind |-> "raised", error |-> details]
    ELSE IF inflight # NoExc THEN [kind |-> "raised", error |-> inflight]
    ELSE [kind |-> "returned", error |-> NoExc]

\* challenge.py 156: no callback is left; the run returns or raises.
CleanupDone ==
    /\ pc = "cleanup"
    /\ stack = <<>>
    /\ outcome' = RunOutcome(pending_raise, exc_details, exc)
    /\ pc' = "done"
    /\ UNCHANGED auxVars
    /\ UNCHANGED <<nDomains, timeout, now, callerDeadline, challenges,
                   verification_tokens, dns_records, stack, deadline, rec,
                   index, exc, exc_details, pending_raise, createLog, returned,
                   nDeleteCalls, deleteRaised, observed, queried, lastCall,
                   queryStart, allEmpty, timeoutAt, answered, finalized>>

Next ==
    \/ RequestCertificate
    \/ NewOrder
    \/ NewOrderFails
    \/ CreateRecord
    \/ StartWait
    \/ PollQuery
    \/ Sleep
    \/ PollTimeout
    \/ Yield
    \/ AnswerChallenge
    \/ PollAndFinalize
    \/ DeleteRecord
    \/ CleanupDone

Spec == Init /\ [][Next]_vars

TypeOK ==
    /\ pc \in {"init", "new_order", "creating", "polling", "sleeping",
               "answering", "cleanup", "done"}
    /\ now \in 0..(PROPAGATION_TIMEOUT + QUERY_INTERVAL + 2 * MaxResolveTime)
    /\ Len(dns_records) <= nDomains
    /\ returned \subseteq 1..MaxDomains

\* ------------------------------------------------ the DigitalOcean provider
\* types.py 7-23: RecordType.
RecordTypes == {"A", "CNAME", "NS", "TXT", "SOA"}

\* utils.py 51-54: what get_domain raises, "None" when it returns.
GetDomainError(fqdn) ==
    IF fqdn = <<>> \/ FirstDot(fqdn) = 0 THEN "InvalidDomainName" ELSE "None"

\* utils.py 55: ".".join(fqdn.split(".")[-2:]).
get_domain(fqdn) == JoinDots(LastTwo(SplitDots(fqdn)))

\* Mutant of RejectedType: SOA records are let through.
RejectedTypeMutant(t) == FALSE

\* provider.py 82: the record type _check_record_type refuses.
RejectedType(t) == t = "SOA"

\* provider.py 79-86: what _check_record_type raises, "None" when it returns.
CheckRecordTypeError(t) ==
    IF t \notin RecordTypes THEN "ValueError"
    ELSE IF RejectedType(t) THEN "InvalidRecordType"
    ELSE "None"

\* provider.py 24-44: what raise_for_status raises for a response, NoErr when
\* it returns. The ratelimit-reset header is absent (None), text (str, as
\* httpx delivers headers) or a number; "reset_time - time.time()" is only
\* defined for a number.
RaiseForStatus(response, clock) ==
    IF response.status = 404 THEN Err("ResourceNotFoundError")
    ELSE IF response.status = 401 THEN Err("UnauthorizedError")
    ELSE IF response.status = 429 THEN
        IF response.reset.kind = "number"
        THEN [type |-> "RateLimitExceededError",
              minutes |-> TruncMinutes(response.reset.value - clock)]
        ELSE Err("TypeError")
    ELSE IF response.status = 500 THEN Err("ServerError")
    ELSE IF response.status = 422 THEN Err("InvalidRequestError")
    ELSE IF response.status \in 200..299 THEN NoErr
    ELSE Err("HTTPStatusError")

\* The statuses with which the API refuses a request, and its responses.
ErrorStatuses == {400, 401, 403, 404, 422, 429, 500, 503}

ResetHeaders ==
    {[kind |-> "absent", value |-> 0], [kind |-> "text", value |-> 300],
     [kind |-> "number", value |-> 300]}

Refusals ==
    {[status |-> st, reset |-> [kind |-> "absent", value |-> 0]] :
        st \in ErrorStatuses \ {429}}
    \cup {[status |-> 429, reset |-> h] : h \in ResetHeaders}

Success(st) == [status |-> st, reset |-> [kind |-> "absent", value |-> 0]]

\* What time.time() may return when raise_for_status reads it.
Clocks == {0, 90, 400}

\* The fully qualified name of a record of the API: its domain for the apex
\* name "@", else its name followed by "." and its domain.
ServerFqdn(item) ==
    IF item.name = <<"@">> THEN item.domain
    ELSE item.name \o <<".">> \o item.domain

\* provider.py 100-103: GET /{domain}/records/?name=fqdn&type=record_type: the
\* records of the domain with that fully qualified name and type, as listed.
Listing(z, domain, fqdn, record_type) ==
    SelectSeq(z, LAMBDA item :
        item.domain = domain /\ item.type = record_type /\ ServerFqdn(item) = fqdn)

\* provider.py 47-57: create_record(fqdn, values), the DORecord of an item.
DORecordOf(fqdn, item) ==
    [type |-> item.type, domain |-> get_domain(fqdn), fqdn |-> fqdn,
     name |-> item.name, data |-> item.data, ttl |-> item.ttl,
     resource_id |-> item.id]

\* provider.py 98-106: _get_records builds each record with the domain in the
\* place of the fqdn.
GetRecords(z, fqdn, record_type) ==
    LET found == Listing(z, get_domain(fqdn), fqdn, record_type)
    IN [i \in DOMAIN found |-> DORecordOf(get_domain(fqdn), found[i])]

\* provider.py 129-135: the loop body returns or raises in its first turn, so
\* only the first record listed is compared.
CheckRecord(existing, value, ttl) ==
    IF existing = <<>> THEN [kind |-> "none", record |-> NoRecord]
    ELSE IF existing[1].data = value /\ existing[1].ttl = ttl
         THEN [kind |-> "found", record |-> existing[1]]
         ELSE [kind |-> "exists", record |-> NoRecord]

\* Mutant of Reraise: RecordAlreadyExistsError is swallowed whatever append is.
ReraiseMutant(append) == FALSE

\* provider.py 163-165: "if not options.append: raise".
Reraise(append) == ~append

\* provider.py 171-175: the record name sent to the API.
RecordName(fqdn) ==
    IF get_domain(fqdn) = fqdn THEN <<"@">>
    ELSE BeforeFirst(fqdn, <<".">> \o get_domain(fqdn))

\* provider.py 137-188: create_record on zone z, given the responses the API
\* gives to the GET and to the POST when they are sent, and the clock.
\* The result: the requests sent, the error raised or NoErr, the record
\* returned, and the zone afterwards.
CreateRecordDO(z, id, o, getResponse, postResponse, clock) ==
    LET getErr == RaiseForStatus(getResponse, clock)
        postErr == RaiseForStatus(postResponse, clock)
        GET == [method |-> "GET", status |-> getResponse.status]
        POST == [method |-> "POST", status |-> postResponse.status]
        check == CheckRecord(GetRecords(z, o.fqdn, o.record_type), o.record_value, o.record_ttl)
        item == [id |-> id, domain |-> get_domain(o.fqdn), type |-> o.record_type,
                 name |-> RecordName(o.fqdn), data |-> o.record_value, ttl |-> o.record_ttl]
        Out(requests, error, record, after) ==
            [requests |-> requests, error |-> error, record |-> record,
             zone |-> after]
    IN
    IF CheckRecordTypeError(o.record_type) # "None"
    THEN Out(<<>>, Err(CheckRecordTypeError(o.record_type)), NoRecord, z)
    ELSE IF GetDomainError(o.fqdn) # "None"
    THEN Out(<<>>, Err(GetDomainError(o.fqdn)), NoRecord, z)
    ELSE IF getErr # NoErr
    THEN Out(<<GET>>, getErr, NoRecord, z)
    ELSE IF check.kind = "exists" /\ Reraise(o.append)
    THEN Out(<<GET>>, Err("RecordAlreadyExistsError"), NoRecord, z)
    ELSE IF check.kind = "found"
    THEN Out(<<GET>>, NoErr, check.record, z)
    ELSE IF postResponse.status \notin 200..299
    THEN Out(<<GET, POST>>, postErr, NoRecord, z)
    ELSE Out(<<GET, POST>>, NoErr, DORecordOf(o.fqdn, item), Append(z, item))

\* Mutant of DeleteRecordDO: the DELETE removes every record at the name of
\* the record rather than the record with its id.
DeleteRecordDOMutant(z, record, response, clock) ==
    LET present == \E i \in DOMAIN z :
                        z[i].domain = record.domain /\ z[i].name = record.name
        answer == IF present THEN response ELSE Success(404)
        after == IF answer.status \in 200..299
                 THEN SelectSeq(z, LAMBDA item : item.name # record.name)
                 ELSE z
    IN [requests |-> <<[method |-> "DELETE", status |-> answer.status]>>,
        error |-> RaiseForStatus(answer, clock), record |-> record,
        zone |-> after]

\* provider.py 190-203: delete_record on zone z: DELETE
\* /{record.domain}/records/{record.resource_id}, which the API answers with
\* 404 when it holds no such record, else with the response given.
DeleteRecordDO(z, record, response, clock) ==
    LET present == \E i \in DOMAIN z :
                        z[i].id = record.resource_id /\ z[i].domain = record.domain
        answer == IF present THEN response ELSE Success(404)
        after == IF answer.status \in 200..299
                 THEN SelectSeq(z, LAMBDA item : item.id # record.resource_id)
                 ELSE z
    IN [requests |-> <<[method |-> "DELETE", status |-> answer.status]>>,
        error |-> RaiseForStatus(answer, clock), record |-> record,
        zone |-> after]

\* The run of DNS01Challenge at rest, while another part is checked.
OrchIdle ==
    /\ nDomains = 1
    /\ timeout = DEFAULT_TIMEOUT
    /\ now = 0
    /\ callerDeadline = 0
    /\ pc = "init"
    /\ challenges = <<>>
    /\ verification_tokens = <<>>
    /\ dns_records = <<>>
    /\ stack = <<>>
    /\ deadline = 0
    /\ rec = 0
    /\ index = 0
    /\ exc = NoExc
    /\ exc_details = NoExc
    /\ pending_raise = FALSE
    /\ outcome = [kind |-> "none", error |-> NoExc]
    /\ createLog = <<>>
    /\ returned = {}
    /\ nDeleteCalls = [k \in 1..MaxDomains |-> 0]
    /\ deleteRaised = {}
    /\ observed = {}
    /\ queried = {}
    /\ lastCall = [kind |-> "none", rec |-> 0, values |-> <<>>, seq |-> 0]
    /\ queryStart = -1
    /\ allEmpty = TRUE
    /\ timeoutAt = -1
    /\ answered = <<>>
    /\ finalized = "no"

\* ----------------------------------------- the provider against its zone
\* The records a zone may hold before the provider is used: TXT records of
\* the domain a.io, three at x.a.io and one at the apex.
ZoneItems ==
    {[domain |-> <<"a", ".", "i", "o">>, type |-> "TXT", name |-> n,
      data |-> d, ttl |-> t] :
        <<n, d, t>> \in {<< <<"x">>, <<"u">>, 30 >>, << <<"x">>, <<"v">>, 30 >>,
                         << <<"x">>, <<"u">>, 60 >>, << <<"@">>, <<"u">>, 30 >>}}

\* The listings of up to MaxZone different records, in any order, with the
\* ids the API gave them.
InitialZones ==
    {[i \in DOMAIN z |->
        [id |-> i, domain |-> z[i].domain, type |-> z[i].type,
         name |-> z[i].name, data |-> z[i].data, ttl |-> z[i].ttl]] :
        z \in {y \in UNION {[1..k -> ZoneItems] : k \in 0..MaxZone} :
                    \A i, j \in DOMAIN y : i # j => y[i] # y[j]}}

\* The options create_record is called with.
CreateOptions ==
    [fqdn : {<<"x", ".", "a", ".", "i", "o">>},
     record_type : {"TXT", "SOA"},
     record_value : {<<"u">>, <<"v">>},
     record_ttl : {RECORD_TTL},
     append : BOOLEAN]

\* The refusals of the API met while the zone is exercised.
ZoneRefusals == {r \in Refusals : r.status \in {404, 500}}

ProvInit ==
    /\ OrchIdle
    /\ PairIdle
    /\ RecordNameIdle
    /\ NamesIdle
    /\ StatusIdle
    /\ ResolverIdle
    /\ RunsIdle
    /\ zone \in InitialZones
    /\ nextId = MaxZone + 1
    /\ nCalls = 0
    /\ held = {}
    /\ lastOp = NoOp

\* provider.py 137-188: one call of DigitalOceanProvider.create_record.
DoCreate ==
    /\ nCalls < MaxCalls
    /\ \E o \in CreateOptions,
          getResponse \in {Success(200)} \cup ZoneRefusals,
          postResponse \in {Success(201)} \cup ZoneRefusals :
        LET out == CreateRecordDO(zone, nextId, o, getResponse, postResponse, 0)
        IN
        /\ zone' = out.zone
        /\ nextId' = IF out.zone # zone THEN nextId + 1 ELSE nextId
        /\ held' = IF out.error = NoErr THEN held \cup {out.record} ELSE held
        /\ lastOp' = [op |-> "create", fqdn |-> o.fqdn,
                      record_type |-> o.record_type,
                      value |-> o.record_value, ttl |-> o.record_ttl,
                      append |-> o.append,
                      record |-> out.record, requests |-> out.requests,
                      error |-> out.error, zoneBefore |-> zone]
    /\ nCalls' = nCalls + 1
    /\ UNCHANGED <<orchVars, nameVars, statusVars, resolverVars, runVars, pairVars,
                 recordNameVars>>

\* provider.py 190-203: one call of DigitalOceanProvider.delete_record, with
\* a record create_record returned.
DoDelete ==
    /\ nCalls < MaxCalls
    /\ \E record \in held, response \in {Success(204)} \cup ZoneRefusals :
        LET out == DeleteRecordDO(zone, record, response, 0)
        IN
        /\ zone' = out.zone
        /\ lastOp' = [op |-> "delete", fqdn |-> record.fqdn,
                      record_type |-> record.type, value |-> record.data,
                      ttl |-> record.ttl, append |-> FALSE,
                      record |-> record, requests |-> out.requests,
                      error |-> out.error, zoneBefore |-> zone]
    /\ nCalls' = nCalls + 1
    /\ UNCHANGED <<nextId, held>>
    /\ UNCHANGED <<orchVars, nameVars, statusVars, resolverVars, runVars, pairVars,
                 recordNameVars>>

ProvNext == DoCreate \/ DoDelete

SpecProvider == ProvInit /\ [][ProvNext]_vars

\* ------------------------------------------ raise_for_status on its own
\* The statuses a response may carry, and the responses: any of the statuses
\* with any content of the ratelimit-reset header.
StatusCodes ==
    {200, 201, 204, 301, 400, 401, 403, 404, 409, 422, 428, 429, 500, 502, 503}

Responses == [status : StatusCodes, reset : ResetHeaders]

StatusInit ==
    /\ OrchIdle
    /\ PairIdle
    /\ RecordNameIdle
    /\ NamesIdle
    /\ ProvIdle
    /\ StatusIdle
    /\ ResolverIdle
    /\ RunsIdle

\* provider.py 24-44: raise_for_status is given a response, at some time.
RaiseStatus ==
    /\ \E response \in Responses, clock \in Clocks :
        lastResponse' = [response |-> response, clock |-> clock,
                         raised |-> RaiseForStatus(response, clock)]
    /\ UNCHANGED <<orchVars, nameVars, provVars, resolverVars, runVars, pairVars,
                 recordNameVars>>

StatusNext == RaiseStatus

SpecStatus == StatusInit /\ [][StatusNext]_vars

\* ------------------------------------------------- the dnspython resolver
\* The names resolve is called with: a name under a zone, a zone, a single
\* label, and a name written with its final dot.
ResolverNames ==
    { <<"x", ".", "a", ".", "i", "o">>, <<"a", ".", "i", "o">>, <<"i", "o">>,
      <<"a", ".", "i", "o", ".">> }

\* The exceptions with which a dnspython query fails.
QueryFailures == {"NXDOMAIN", "Timeout", "NoAnswer"}

\* Mutant of IsDNSException: a timeout is not caught.
IsDNSExceptionMutant(kind) == kind \in QueryFailures /\ kind # "Timeout"

\* __init__.py 77, 98, 125, 156, 172: "except DNSException", the base class
\* of every failure of a query.
IsDNSException(kind) == kind \in QueryFailures

\* The answers of a successful query: the records, each with its texts (the
\* address, the target, the mname, or the strings of a TXT record).
Answers(record_type) ==
    IF record_type = "A" THEN {<< <<"9">> >>, << <<"9">>, <<"8">> >>}
    ELSE IF record_type = "TXT"
    THEN {<< << <<"u">> >> >>, << << <<"u">>, <<"v">> >>, << <<"w">> >> >>}
    ELSE {<< <<"n", ".", "i", "o", ".">> >>}

\* What a query may give: an answer, or one of the failures.
QueryOutcomes(record_type) ==
    [kind : {"answer"}, answer : Answers(record_type)]
    \cup [kind : QueryFailures, answer : {<<>>}]

\* str.rstrip("."): s without its final dots.
RECURSIVE RStripDots(_)
RStripDots(s) ==
    IF s # <<>> /\ s[Len(s)] = "." THEN RStripDots(Take(s, Len(s) - 1)) ELSE s

\* The strings of every record, in order.
RECURSIVE Flatten(_)
Flatten(records) ==
    IF records = <<>> THEN <<>> ELSE records[1] \o Flatten(Tail(records))

\* __init__.py 79, 100, 131, 162, 174: the list built from an answer.
AnswerValues(record_type, answer) ==
    IF record_type = "TXT" THEN Flatten(answer)
    ELSE IF record_type = "CNAME"
    THEN [i \in DOMAIN answer |-> RStripDots(answer[i])]
    ELSE answer

\* Mutant of ParentDomain: the name is kept whole.
ParentDomainMutant(domain) == domain

\* __init__.py 126, 157: domain.split(".", maxsplit=1)[1].
ParentDomain(domain) == Drop(domain, FirstDot(domain))

ResolverInit ==
    /\ OrchIdle
    /\ PairIdle
    /\ RecordNameIdle
    /\ NamesIdle
    /\ ProvIdle
    /\ StatusIdle
    /\ RunsIdle
    /\ resolveArgs \in [fqdn : ResolverNames, record_type : RecordTypes]
    /\ resolverPc = "call"
    /\ climbDomain = <<>>
    /\ queryLog = <<>>
    /\ resolveResult = <<>>
    /\ resolveRaised = "None"

\* __init__.py 48-51, 54-55, 61-79, 82-100, 165-174: an A, CNAME or TXT
\* lookup sends one query and returns its values, or [] when it failed.
ResolveOnce ==
    /\ resolverPc = "call"
    /\ resolveArgs.record_type \in {"A", "CNAME", "TXT"}
    /\ \E q \in QueryOutcomes(resolveArgs.record_type) :
        /\ queryLog' = Append(queryLog, [name |-> resolveArgs.fqdn, kind |-> q.kind])
        /\ resolveResult' =
                IF q.kind = "answer"
                THEN AnswerValues(resolveArgs.record_type, q.answer)
                ELSE <<>>
        /\ resolveRaised' =
                IF q.kind = "answer" \/ IsDNSException(q.kind) THEN "None"
                ELSE q.kind
    /\ resolverPc' = "done"
    /\ UNCHANGED <<resolveArgs, climbDomain>>
    /\ UNCHANGED <<orchVars, nameVars, provVars, statusVars, runVars, pairVars,
                 recordNameVars>>

\* __init__.py 52-53, 56-57, 117, 148: an NS or SOA lookup starts at the fqdn.
ClimbStart ==
    /\ resolverPc = "call"
    /\ resolveArgs.record_type \in {"NS", "SOA"}
    /\ climbDomain' = resolveArgs.fqdn
    /\ resolverPc' = "climb"
    /\ UNCHANGED <<resolveArgs, queryLog, resolveResult, resolveRaised>>
    /\ UNCHANGED <<orchVars, nameVars, provVars, statusVars, runVars, pairVars,
                 recordNameVars>>

\* __init__.py 121-126, 152-157: one turn of 'while "." in domain': the query
\* answers and ends the loop, or fails and the leftmost label is removed.
ClimbQuery ==
    /\ resolverPc = "climb"
    /\ FirstDot(climbDomain) # 0
    /\ \E q \in QueryOutcomes(resolveArgs.record_type) :
        /\ queryLog' = Append(queryLog, [name |-> climbDomain, kind |-> q.kind])
        /\ IF q.kind = "answer"
           THEN /\ resolveResult' = AnswerValues(resolveArgs.record_type, q.answer)
                /\ resolverPc' = "done"
                /\ UNCHANGED <<climbDomain, resolveRaised>>
           ELSE IF IsDNSException(q.kind)
           THEN /\ climbDomain' = ParentDomain(climbDomain)
                /\ UNCHANGED <<resolverPc, resolveResult, resolveRaised>>
           ELSE /\ resolveRaised' = q.kind
                /\ resolverPc' = "done"
                /\ UNCHANGED <<climbDomain, resolveResult>>
    /\ UNCHANGED resolveArgs
    /\ UNCHANGED <<orchVars, nameVars, provVars, statusVars, runVars, pairVars,
                 recordNameVars>>

\* __init__.py 128-129, 159-160: the loop ended with no answer.
ClimbExhausted ==
    /\ resolverPc = "climb"
    /\ FirstDot(climbDomain) = 0
    /\ resolveResult' = <<>>
    /\ resolverPc' = "done"
    /\ UNCHANGED <<resolveArgs, climbDomain, queryLog, resolveRaised>>
    /\ UNCHANGED <<orchVars, nameVars, provVars, statusVars, runVars, pairVars,
                 recordNameVars>>

ResolverNext == ResolveOnce \/ ClimbStart \/ ClimbQuery \/ ClimbExhausted

SpecResolver == ResolverInit /\ [][ResolverNext]_vars

\* resolve is a sequence of statements of one thread: it keeps running.
SpecResolverFair == SpecResolver /\ WF_vars(ResolverNext)

\* ------------------------------------------------ two runs on one zone
\* Two runs of temporary_txt_records, each by its own DNS01Challenge, with
\* the DigitalOceanProvider on the same zone.  Beside each run the model
\* keeps the zone that run would have had to itself, given the same
\* responses of the API, and what the run would have got there.
RunIds == {1, 2}

\* The domains of the two runs: disjoint, with and without the same
\* verification DNS names.
RunDomainChoices ==
    { << << <<"*", ".", "a", ".", "i", "o">> >>,
         << <<"a", ".", "i", "o">> >> >>,
      << << <<"b", ".", "a", ".", "i", "o">> >>,
         << <<"a", ".", "i", "o">> >> >>,
      << << <<"*", ".", "a", ".", "i", "o">>, <<"b", ".", "a", ".", "i", "o">> >>,
         << <<"a", ".", "i", "o">>, <<"*", ".", "b", ".", "a", ".", "i", "o">> >> >> }

\* challenge.py 74-80: the (name, value) pairs of run r.  Every challenge of
\* every order has its own validation value.
RunTokens(r, doms) ==
    [i \in DOMAIN doms |-> [fqdn |-> VerificationName(doms[i]), value |-> <<r, i>>]]

\* A TXT record left at _acme-challenge.a.io before the runs, of neither.
StaleItem ==
    [id |-> 1, domain |-> <<"a", ".", "i", "o">>, type |-> "TXT",
     name |-> DNS_LABEL, data |-> <<0, 0>>, ttl |-> RECORD_TTL]

\* A TXT record left at _acme-challenge.a.io before the runs, with the value
\* and the TTL run 1 asks for when its first domain is *.a.io.
LeftoverItem ==
    [id |-> 1, domain |-> <<"a", ".", "i", "o">>, type |-> "TXT",
     name |-> DNS_LABEL, data |-> <<1, 1>>, ttl |-> RECORD_TTL]

\* The responses of the API to the requests of the runs.
RunRefusals == {r \in Refusals : r.status = 500}

\* No create_record call under way.
NoOut == [requests |-> <<>>, error |-> NoErr, record |-> NoRecord, zone |-> <<>>]

\* The resolver's answer holds the value of record: the changes have reached
\* it and the zone z holds the value at the record's name.
Seen(z, record, propagated) ==
    /\ propagated
    /\ \E i \in DOMAIN z :
        /\ z[i].type = record.type
        /\ ServerFqdn(z[i]) = record.fqdn
        /\ z[i].data = record.data

\* challenge.py 109-127, 153-156: create_record has returned or raised: the
\* record is pushed on the stack, or the finally block is entered.
Completed(run, out) ==
    [run EXCEPT
        !.log = Append(@, [op |-> "create", error |-> out.error,
                           record |-> out.record]),
        !.stack = IF out.error = NoErr THEN RegisterCallback(@, out.record) ELSE @,
        !.pc = IF out.error # NoErr THEN "cleanup"
               ELSE IF Len(run.stack) + 1 = Len(run.domains) THEN "wait"
               ELSE "create"]

LoggedAlone(a, out) ==
    [a EXCEPT !.log = Append(@, [op |-> "create", error |-> out.error,
                                 record |-> out.record])]

TwoRunsInit ==
    /\ OrchIdle
    /\ PairIdle
    /\ RecordNameIdle
    /\ NamesIdle
    /\ StatusIdle
    /\ ResolverIdle
    /\ zone \in {<<>>, <<StaleItem>>, <<LeftoverItem>>}
    /\ nextId = 2
    /\ nCalls = 0
    /\ held = {}
    /\ lastOp = NoOp
    /\ \E d \in RunDomainChoices :
        runs = [r \in RunIds |->
                    [domains |-> d[r], pc |-> "create", stack |-> <<>>,
                     pending |-> NoOut, log |-> <<>>]]
    /\ alone = [r \in RunIds |-> [zone |-> zone, pending |-> NoOut, log |-> <<>>]]

\* challenge.py 111-122, provider.py 154-169: run r calls create_record for
\* its next domain: the type is checked and the records at the name are
\* listed.  Without a POST to send the call is over; the POST is a later
\* request, and the other run may act before it.
RunCreateRecord(r) ==
    /\ runs[r].pc = "create"
    /\ \E getResponse \in {Success(200)} \cup RunRefusals,
          postResponse \in {Success(201)} \cup RunRefusals :
        LET o == RecordOptions(RunTokens(r, runs[r].domains)[Len(runs[r].stack) + 1])
            out == CreateRecordDO(zone, nextId, o, getResponse, postResponse, 0)
            aout == CreateRecordDO(alone[r].zone, nextId, o, getResponse,
                                   postResponse, 0)
        IN
        IF Len(out.requests) = 2 \/ Len(aout.requests) = 2
        THEN /\ runs' = [runs EXCEPT ![r].pc = "post", ![r].pending = out]
             /\ alone' = [alone EXCEPT ![r].pending = aout]
             /\ nextId' = nextId + 1
        ELSE /\ runs' = [runs EXCEPT ![r] = Completed(@, out)]
             /\ alone' = [alone EXCEPT ![r] = LoggedAlone(@, aout)]
             /\ UNCHANGED nextId
    /\ UNCHANGED <<zone, nCalls, held, lastOp>>
    /\ UNCHANGED <<orchVars, nameVars, statusVars, resolverVars, pairVars,
                 recordNameVars>>

\* provider.py 176-188, challenge.py 125-127: the POST of the call under way
\* reaches the API, which adds the record to the zone as it is by then.
RunPostRecord(r) ==
    /\ runs[r].pc = "post"
    /\ LET out == runs[r].pending
           aout == alone[r].pending
           Written(o, z) ==
                IF o.error = NoErr /\ Len(o.requests) = 2
                THEN Append(z, o.zone[Len(o.zone)])
                ELSE z
       IN
       /\ zone' = Written(out, zone)
       /\ runs' = [runs EXCEPT ![r] = [Completed(@, out) EXCEPT !.pending = NoOut]]
       /\ alone' = [alone EXCEPT
                        ![r] = [LoggedAlone(@, aout) EXCEPT
                                    !.pending = NoOut,
                                    !.zone = Written(aout, @)]]
    /\ UNCHANGED <<nextId, nCalls, held, lastOp>>
    /\ UNCHANGED <<orchVars, nameVars, statusVars, resolverVars, pairVars,
                 recordNameVars>>

\* challenge.py 129-150: the wait for the records of run r: the resolver
\* gives the values the zone holds at each name once they have propagated,
\* and TimeoutError is raised when a value is not seen in time.
RunWait(r) ==
    /\ runs[r].pc = "wait"
    /\ \E propagated \in BOOLEAN :
        LET Waited(z) ==
                [op |-> "wait",
                 error |-> IF \A k \in DOMAIN runs[r].stack :
                                    Seen(z, runs[r].stack[k], propagated)
                           THEN NoErr ELSE Err("TimeoutError"),
                 record |-> NoRecord]
        IN
        /\ runs' = [runs EXCEPT ![r].pc = "cleanup",
                                ![r].log = Append(@, Waited(zone))]
        /\ alone' = [alone EXCEPT ![r].log = Append(@, Waited(alone[r].zone))]
    /\ UNCHANGED provVars
    /\ UNCHANGED <<orchVars, nameVars, statusVars, resolverVars, pairVars,
                 recordNameVars>>

\* challenge.py 153-156: stack.__exit__ calls delete_record with the record
\* registered last, and goes on whether it raised or not.
RunDeleteRecord(r) ==
    /\ runs[r].pc = "cleanup"
    /\ runs[r].stack # <<>>
    /\ \E response \in {Success(204)} \cup RunRefusals :
        LET record == runs[r].stack[Len(runs[r].stack)]
            out == DeleteRecordDO(zone, record, response, 0)
            aout == DeleteRecordDO(alone[r].zone, record, response, 0)
        IN
        /\ zone' = out.zone
        /\ runs' = [runs EXCEPT
                        ![r].stack = RemainingCallbacks(@, out.error # NoErr),
                        ![r].log = Append(@, [op |-> "delete", error |-> out.error,
                                              record |-> record])]
        /\ alone' = [alone EXCEPT
                        ![r].zone = aout.zone,
                        ![r].log = Append(@, [op |-> "delete", error |-> aout.error,
                                              record |-> record])]
    /\ UNCHANGED <<nextId, nCalls, held, lastOp>>
    /\ UNCHANGED <<orchVars, nameVars, statusVars, resolverVars, pairVars,
                 recordNameVars>>

\* challenge.py 156: stack.__exit__ has called every callback.
RunExit(r) ==
    /\ runs[r].pc = "cleanup"
    /\ runs[r].stack = <<>>
    /\ runs' = [runs EXCEPT ![r].pc = "done"]
    /\ UNCHANGED alone
    /\ UNCHANGED provVars
    /\ UNCHANGED <<orchVars, nameVars, statusVars, resolverVars, pairVars,
                 recordNameVars>>

TwoRunsNext ==
    \E r \in RunIds :
        \/ RunCreateRecord(r)
        \/ RunPostRecord(r)
        \/ RunWait(r)
        \/ RunDeleteRecord(r)
        \/ RunExit(r)

SpecTwoRuns == TwoRunsInit /\ [][TwoRunsNext]_vars

\* ------------------------------------- grouping domains with their tokens
\* The challenges of an authorization that holds a DNS-01 challenge.
Dns01Lists == {<<"dns-01">>, <<"http-01", "dns-01">>}

\* The orders for n domains: one authorization for each domain, identifier
\* being the position of its domain in self.domains, listed in any order.
CompleteOrders(n) ==
    {o \in [1..n -> [identifier : 1..n, challenges : Dns01Lists]] :
        \A i, j \in 1..n : i # j => o[i].identifier # o[j].identifier}

\* challenge.py 50-55: the DNS-01 challenges of the order, as collected.
ChallengesOf(o) == CollectChallenges([a \in DOMAIN o |-> o[a].challenges], 1)

PairInit ==
    /\ OrchIdle
    /\ ProvIdle
    /\ StatusIdle
    /\ ResolverIdle
    /\ RunsIdle
    /\ RecordNameIdle
    /\ domains \in {d \in UNION {[1..n -> DomainNames] : n \in 1..MaxDomains} :
                        \A i, j \in DOMAIN d : i # j => d[i] # d[j]}
    /\ dnsNames = <<>>
    /\ acmeOrder \in CompleteOrders(Len(domains))
    /\ pairTokens = <<>>

\* challenge.py 63-80: the validation of every collected challenge, and each
\* domain grouped with the validation at its own position in that list.
GroupTokens ==
    /\ pairTokens = <<>>
    /\ LET tokens == VerificationTokens(Len(domains), ChallengesOf(acmeOrder)) IN
        pairTokens' = [i \in DOMAIN tokens |->
                            [fqdn |-> VerificationName(domains[tokens[i].fqdn]),
                             value |-> tokens[i].value]]
    /\ UNCHANGED <<acmeOrder, nameVars>>
    /\ UNCHANGED <<orchVars, provVars, statusVars, resolverVars, runVars,
                   recordNameVars>>

PairNext == GroupTokens

SpecPairing == PairInit /\ [][PairNext]_vars

\* ------------------------------------------- the record name on its own
\* The labels of the names create_record is called with, and the names: up
\* to MaxLabels labels joined by dots.
Labels == {<<"a">>, <<"i", "o">>, <<"x">>}

Fqdns == {JoinDots(ls) : ls \in UNION {[1..n -> Labels] : n \in 1..MaxLabels}}

RecordNameInit ==
    /\ OrchIdle
    /\ NamesIdle
    /\ ProvIdle
    /\ StatusIdle
    /\ ResolverIdle
    /\ RunsIdle
    /\ PairIdle
    /\ fqdnArg \in Fqdns
    /\ nameSent = <<>>

\* provider.py 171-184: the record name of the POST, for a name get_domain
\* accepts.
SendName ==
    /\ nameSent = <<>>
    /\ GetDomainError(fqdnArg) = "None"
    /\ nameSent' = RecordName(fqdnArg)
    /\ UNCHANGED fqdnArg
    /\ UNCHANGED <<orchVars, nameVars, provVars, statusVars, resolverVars,
                   runVars, pairVars>>

RecordNameNext == SendName

SpecRecordName == RecordNameInit /\ [][RecordNameNext]_vars

\* ------------------------------------------- deriving the DNS names alone
\* The domains of a DNS01Challenge: a list of one to MaxDomains names.
NamesInit ==
    /\ OrchIdle
    /\ PairIdle
    /\ RecordNameIdle
    /\ ProvIdle
    /\ StatusIdle
    /\ ResolverIdle
    /\ RunsIdle
    /\ domains \in UNION {[1..k -> DomainNames] : k \in 1..MaxDomains}
    /\ dnsNames = <<>>

\* challenge.py 74-80: one turn of the loop over self.domains.
DeriveName ==
    /\ Len(dnsNames) < Len(domains)
    /\ dnsNames' = Append(dnsNames, VerificationName(domains[Len(dnsNames) + 1]))
    /\ UNCHANGED domains
    /\ UNCHANGED <<orchVars, provVars, statusVars, resolverVars, runVars, pairVars,
                 recordNameVars>>

NamesNext == DeriveName

SpecNames == NamesInit /\ [][NamesNext]_vars

\* ------------------------------------------------------------------ claims
StackIds == {stack[j].id : j \in DOMAIN stack}
Values(values) == {values[j] : j \in DOMAIN values}
DataOf(k) == verification_tokens[k].value

\* C1: when the run has returned or raised, whatever its outcome,
\* provider.delete_record has been called exactly once for each record that
\* provider.create_record returned in the run, and for no other record.
C1_DeleteOncePerCreatedRecord ==
    pc = "done" =>
        \A k \in 1..MaxDomains :
            nDeleteCalls[k] = (IF k \in returned THEN 1 ELSE 0)

\* C1 witness: a run that timed out waiting for propagation after creating two
\* records, one of whose deletions raised, has ended.
C1_Witness ==
    /\ pc = "done"
    /\ exc = Exc("TimeoutError", "propagation")
    /\ Cardinality(returned) = 2
    /\ deleteRaised # {}

\* C2: if poll_and_finalize returned a finalized order and a delete_record
\* call raised during cleanup, the run still returns the finalized order.
C2_CleanupErrorKeepsSuccess ==
    (pc = "done" /\ finalized = "returned" /\ deleteRaised # {})
        => outcome.kind = "returned"

\* C3: if the run failed with a first fatal error and a delete_record call
\* also raised during cleanup, the error raised to the caller is the first
\* fatal error.
C3_FirstFatalErrorIsRaised ==
    (pc = "done" /\ exc # NoExc /\ deleteRaised # {})
        => outcome = [kind |-> "raised", error |-> exc]

\* C4: during and after cleanup, once some delete_record call has raised,
\* every record created in the run has had its deletion attempted or is still
\* waiting on the stack for it; at the end of the run all were attempted.
C4_FailedDeleteDoesNotStopCleanup ==
    (pc \in {"cleanup", "done"} /\ deleteRaised # {}) =>
        /\ \A k \in returned : k \in StackIds \/ nDeleteCalls[k] >= 1
        /\ pc = "done" => \A k \in returned : nDeleteCalls[k] >= 1

\* C4 witness: the deletion of the newest of two records raised, and the
\* older record's deletion was attempted after it.
C4_Witness ==
    /\ pc = "done"
    /\ returned = {1, 2}
    /\ 2 \in deleteRaised
    /\ nDeleteCalls[1] = 1

\* C5: no resolver query and no sleep of the propagation wait is started once
\* the clock has passed the caller's deadline (clock() + timeout).
C5_CallerDeadlineBoundsWait ==
    queryStart >= 0 => queryStart <= callerDeadline

\* C6: if the propagation timeout elapsed for some record, the run fails with
\* the propagation-timeout error, answer_challenge and poll_and_finalize were
\* never called, and deletion was attempted for every created record.
C6_PropagationTimeoutOutcome ==
    (pc = "done" /\ timeoutAt >= 0) =>
        /\ outcome = [kind |-> "raised",
                      error |-> Exc("TimeoutError", "propagation")]
        /\ answered = <<>>
        /\ finalized = "no"
        /\ \A k \in returned : nDeleteCalls[k] >= 1

\* C7: if create_record raised for the k-th domain, the run fails with that
\* provider error, the k-1 records created before are each deleted, and no
\* resolver query, no answer_challenge and no further create_record is made.
C7_CreateFailureOutcome ==
    (pc = "done" /\ exc.at = "create_record") =>
        /\ outcome = [kind |-> "raised", error |-> exc]
        /\ \A k \in returned : nDeleteCalls[k] = 1
        /\ Len(createLog) = Cardinality(returned) + 1
        /\ queried = {}
        /\ answered = <<>>

\* C8: a record becomes observed as propagated only by a resolver query for
\* it whose answer holds an element equal to its token; every query whose
\* answer holds such an element ends the wait for its record; and once a
\* record is observed, no query and no sleep is made for it again.
C8_ExactMatchEndsWait ==
    /\ [][\A k \in returned :
            (k \notin observed /\ k \in observed') =>
                /\ lastCall' # lastCall
                /\ lastCall'.kind = "resolve"
                /\ lastCall'.rec = k
                /\ DataOf(k) \in Values(lastCall'.values)]_vars
    /\ [][(lastCall' # lastCall /\ lastCall'.kind = "resolve") =>
            (lastCall'.rec \in observed'
                <=> DataOf(lastCall'.rec) \in Values(lastCall'.values))]_vars
    /\ [][\A k \in observed :
            lastCall' # lastCall =>
                ~(lastCall'.kind \in {"resolve", "sleep"} /\ lastCall'.rec = k)]_vars

\* C8 witness: the first record was observed propagated and the latest query,
\* for the second record, answered only strings that contain its token.
C8_Witness ==
    /\ observed = {1}
    /\ pc = "sleeping"
    /\ lastCall.kind = "resolve"
    /\ lastCall.rec = 2
    /\ lastCall.values # <<>>

\* C9: if the resolver answered the empty list throughout the propagation
\* wait, the run fails with the propagation-timeout error, raised between 120
\* and 122 on the clock after the wait began.
C9_EmptyAnswersTimeOut ==
    (pc = "done" /\ rec >= 1 /\ allEmpty) =>
        /\ outcome = [kind |-> "raised",
                      error |-> Exc("TimeoutError", "propagation")]
        /\ timeoutAt - (deadline - PROPAGATION_TIMEOUT) >= PROPAGATION_TIMEOUT
        /\ timeoutAt - (deadline - PROPAGATION_TIMEOUT)
               <= PROPAGATION_TIMEOUT + QUERY_INTERVAL

\* C10: if the order new_order returned offers no DNS-01 challenge, the run
\* has failed with RuntimeError right away and has called none of
\* create_record, delete_record, resolve and answer_challenge.
C10_NoDns01FailsAtOnce ==
    (pc \notin {"init", "new_order"} /\ challenges = <<>>
        /\ outcome.error.at # "new_order") =>
        /\ pc = "done"
        /\ outcome = [kind |-> "raised",
                      error |-> Exc("RuntimeError", "__call__")]
        /\ lastCall.kind = "new_order"
        /\ createLog = <<>>
        /\ \A k \in 1..MaxDomains : nDeleteCalls[k] = 0
        /\ queried = {}
        /\ answered = <<>>

\* C10 witness: a run whose order had no DNS-01 challenge has ended.
C10_Witness ==
    /\ pc = "done"
    /\ challenges = <<>>
    /\ outcome.error.type = "RuntimeError"

\* C11: the run keeps the order of its phases: answer_challenge is called
\* only once every requested record was created and observed propagated,
\* poll_and_finalize only once a response was submitted for every challenge,
\* and delete_record only once poll_and_finalize returned or the run failed.
C11_PhaseOrder ==
    /\ answered # <<>> =>
        /\ Cardinality(returned) = nDomains
        /\ observed = returned
    /\ finalized # "no" => answered = challenges
    /\ (\E k \in 1..MaxDomains : nDeleteCalls[k] > 0) =>
        (finalized = "returned" \/ exc # NoExc)
    /\ pc = "done" => outcome.kind \in {"returned", "raised"}
    /\ outcome.kind = "returned" =>
        (finalized = "returned" /\ stack = <<>> /\ observed = returned)

\* C11 witness: a run went through every phase and returned, two records
\* created, propagated and deleted, two challenges answered.
C11_Witness ==
    /\ pc = "done"
    /\ outcome.kind = "returned"
    /\ Len(answered) = 2
    /\ returned = {1, 2}
    /\ nDeleteCalls[1] = 1 /\ nDeleteCalls[2] = 1

\* C20: the i-th create_record call of a run is for the i-th domain, with
\* record type TXT, ttl 30 and append true, so there is at most one call per
\* domain, in the order of the domains; and when the first resolver query is
\* made, there has been one call for every domain, and none follows.
C20_CreateCallsInOrder ==
    /\ Len(createLog) <= nDomains
    /\ \A i \in DOMAIN createLog :
        /\ createLog[i].fqdn = i
        /\ createLog[i].record_value = Validation(challenges[i])
        /\ createLog[i].record_type = "TXT"
        /\ createLog[i].record_ttl = 30
        /\ createLog[i].append = TRUE
    /\ (queryStart >= 0 \/ pc \in {"polling", "sleeping", "answering"}) =>
        (Len(createLog) = nDomains /\ Cardinality(returned) = nDomains)

\* C20 witness: two domains, two create_record calls, and the wait for
\* propagation has made its first query.
C20_Witness ==
    /\ nDomains = 2
    /\ Len(createLog) = 2
    /\ lastCall.kind = "resolve"
    /\ pc = "sleeping"

\* C12: the verification DNS name of every domain is "_acme-challenge."
\* followed by the domain without its leading "*." when it has one, and by
\* the domain itself otherwise; "*.example.com" and "example.com" both give
\* "_acme-challenge.example.com".
C12_VerificationNames ==
    \A i \in DOMAIN dnsNames :
        LET d == domains[i]
            name == dnsNames[i]
            rest == SubSeq(name, 17, Len(name))
            wildcard == Len(d) >= 2 /\ d[1] = "*" /\ d[2] = "."
        IN
        /\ Len(name) >= 16
        /\ SubSeq(name, 1, 16) = <<"_", "a", "c", "m", "e", "-", "c", "h", "a", "l", "l", "e", "n", "g", "e", ".">>
        /\ wildcard => <<"*", ".">> \o rest = d
        /\ ~wildcard => rest = d
        /\ d \in {<<"*", ".", "e", "x", "a", "m", "p", "l", "e", ".", "c", "o", "m">>, <<"e", "x", "a", "m", "p", "l", "e", ".", "c", "o", "m">>} => name = <<"_", "a", "c", "m", "e", "-", "c", "h", "a", "l", "l", "e", "n", "g", "e", ".", "e", "x", "a", "m", "p", "l", "e", ".", "c", "o", "m">>

\* C12 witness: the names of "*.example.com" and "example.com" were derived
\* in one run.
C12_Witness ==
    /\ domains = <<<<"*", ".", "e", "x", "a", "m", "p", "l", "e", ".", "c", "o", "m">>, <<"e", "x", "a", "m", "p", "l", "e", ".", "c", "o", "m">>>>
    /\ Len(dnsNames) = 2

\* ------------------------------------------------ claims on the provider
\* The latest call was create_record and its listing request succeeded.
CreateListed ==
    /\ lastOp.op = "create"
    /\ lastOp.requests # <<>>
    /\ lastOp.requests[1].status \in 200..299

\* The records the zone held at the name and type of the latest call.
ExistingAtName ==
    Listing(lastOp.zoneBefore, get_domain(lastOp.fqdn), lastOp.fqdn,
            lastOp.record_type)

\* One of them had the value and the TTL of the latest call.
IdenticalExists ==
    \E i \in DOMAIN ExistingAtName :
        /\ ExistingAtName[i].data = lastOp.value
        /\ ExistingAtName[i].ttl = lastOp.ttl

\* The latest call sent no write and left the zone as it was.
NoWrite ==
    /\ \A i \in DOMAIN lastOp.requests : lastOp.requests[i].method = "GET"
    /\ zone = lastOp.zoneBefore

\* C13: whenever the zone already holds a record with the same name, type,
\* value and TTL, whatever else is at that name, in whatever order the zone
\* lists them and whatever append is, create_record returns that record and
\* writes nothing.
C13_IdenticalRecordIsReturned ==
    (CreateListed /\ IdenticalExists)
        => /\ lastOp.error = NoErr
           /\ NoWrite
           /\ lastOp.record.data = lastOp.value
           /\ lastOp.record.ttl = lastOp.ttl
           /\ \E i \in DOMAIN lastOp.zoneBefore :
                    lastOp.zoneBefore[i].id = lastOp.record.resource_id

\* C14: with append false, when the zone holds records at the name and type
\* and none has the requested value and TTL, create_record raises
\* RecordAlreadyExistsError and writes nothing.
C14_DifferentRecordIsRefused ==
    (CreateListed /\ ~lastOp.append /\ ExistingAtName # <<>> /\ ~IdenticalExists)
        => /\ lastOp.error = Err("RecordAlreadyExistsError")
           /\ NoWrite

C14_Witness ==
    /\ CreateListed
    /\ ~lastOp.append
    /\ Len(ExistingAtName) = 2
    /\ ~IdenticalExists
    /\ lastOp.error = Err("RecordAlreadyExistsError")

\* C15: create_record for the type SOA raises InvalidRecordType before any
\* request is sent, and the zone is unchanged.
C15_SoaIsRejectedBeforeAnyRequest ==
    (lastOp.op = "create" /\ lastOp.record_type = "SOA")
        => /\ lastOp.error = Err("InvalidRecordType")
           /\ lastOp.requests = <<>>
           /\ zone = lastOp.zoneBefore

C15_Witness ==
    /\ lastOp.op = "create"
    /\ lastOp.record_type = "SOA"
    /\ lastOp.zoneBefore # <<>>
    /\ lastOp.error = Err("InvalidRecordType")
    /\ nCalls = 2

\* -------------------------------------------- claims on raise_for_status
\* The error the taxonomy names for a status other than 429.
TaxonomyError(status) ==
    IF status = 404 THEN "ResourceNotFoundError"
    ELSE IF status \in {401, 403} THEN "UnauthorizedError"
    ELSE IF status = 500 THEN "ServerError"
    ELSE IF status \in {400, 422} THEN "InvalidRequestError"
    ELSE IF status \in 200..299 THEN "None"
    ELSE "HTTPStatusError"

\* C16: a response with status 404 raises ResourceNotFound, 401 and 403 raise
\* Unauthorized, 500 raises ServerError, 400 and 422 raise InvalidRequest, any
\* other status outside 2xx raises the generic transport error, and a 2xx
\* status raises nothing.
C16_StatusMapping ==
    (lastResponse.response.status # 0 /\ lastResponse.response.status # 429)
        => lastResponse.raised.type = TaxonomyError(lastResponse.response.status)

\* C17: a response with status 429 raises RateLimitExceeded, whatever the
\* ratelimit-reset header holds, a text or nothing included, and when the
\* header holds a time the delay is that time minus the current time.
C17_RateLimitDelay ==
    lastResponse.response.status = 429
        => /\ lastResponse.raised.type = "RateLimitExceededError"
           /\ lastResponse.response.reset.kind # "absent"
                => lastResponse.raised.minutes =
                       TruncMinutes(lastResponse.response.reset.value
                                    - lastResponse.clock)

\* ------------------------------------------------- claims on the resolver
\* resolve has returned or raised, and some query it sent failed.
SomeQueryFailed ==
    /\ resolverPc = "done"
    /\ \E i \in DOMAIN queryLog : queryLog[i].kind \in QueryFailures

\* resolve has returned or raised, and every query it sent failed.
EveryQueryFailed ==
    /\ resolverPc = "done"
    /\ queryLog # <<>>
    /\ \A i \in DOMAIN queryLog : queryLog[i].kind \in QueryFailures

\* C18 as stated: for every record type, a call of resolve in which a query
\* failed raises nothing and returns the empty list.
C18_FailedQueryYieldsNothing ==
    SomeQueryFailed => (resolveRaised = "None" /\ resolveResult = <<>>)

\* C18: resolve raises nothing when queries fail, whatever the record type;
\* an A, CNAME or TXT lookup whose query failed returns the empty list; an NS
\* or SOA lookup returns the empty list when every query on the way up
\* failed, and otherwise the values of the first ancestor that answered.
C18_FailedResolutionYieldsNothing ==
    /\ resolverPc = "done" => resolveRaised = "None"
    /\ EveryQueryFailed => resolveResult = <<>>
    /\ (SomeQueryFailed /\ resolveArgs.record_type \in {"A", "CNAME", "TXT"})
            => resolveResult = <<>>
    /\ (SomeQueryFailed /\ ~EveryQueryFailed)
            => /\ resolveArgs.record_type \in {"NS", "SOA"}
               /\ queryLog[Len(queryLog)].kind = "answer"
               /\ resolveResult # <<>>

C18_Witness ==
    /\ EveryQueryFailed
    /\ resolveArgs.record_type = "NS"
    /\ Len(queryLog) = 2
    /\ queryLog[1].kind = "Timeout"
    /\ queryLog[2].kind = "NXDOMAIN"
    /\ resolveResult = <<>>
    /\ resolveRaised = "None"

\* ------------------------------------------------- claims on the two runs
\* The records the create_record calls of run r have returned.
OwnRecords(r) ==
    {runs[r].log[i].record :
        i \in {j \in DOMAIN runs[r].log :
                    runs[r].log[j].op = "create" /\ runs[r].log[j].error = NoErr}}

\* The records of zone z with the ids of the records of run r.
OwnItems(z, r) ==
    SelectSeq(z, LAMBDA item : \E record \in OwnRecords(r) :
                                    record.resource_id = item.id)

\* C19: two runs for disjoint domains, interleaved in any order on one zone,
\* do not interfere: each passes to delete_record only records its own
\* create_record calls returned, and each gets from every call and from its
\* wait what it would have got alone, and leaves of its records in the zone
\* what it would have left alone.
C19_RunsDoNotInterfere ==
    \A r \in DOMAIN runs :
        /\ runs[r].log = alone[r].log
        /\ \A i \in DOMAIN runs[r].log :
                runs[r].log[i].op = "delete"
                    => runs[r].log[i].record \in OwnRecords(r)
        /\ OwnItems(zone, r) = OwnItems(alone[r].zone, r)

C19_Witness ==
    /\ runs # <<>>
    /\ VerificationName(runs[1].domains[1]) = VerificationName(runs[2].domains[1])
    /\ runs[1].pc = "wait"
    /\ Len(runs[1].stack) = 1
    /\ OwnItems(zone, 1) # <<>>
    /\ runs[2].pc = "done"
    /\ Len(runs[2].log) = 3
    /\ \A i \in DOMAIN runs[2].log : runs[2].log[i].error = NoErr
    /\ Len(zone) = 2
    /\ zone[1] = StaleItem

\* -------------------------------------------- claims on the run, continued
\* The step is a resolver query.
IsQuery == lastCall' # lastCall /\ lastCall'.kind = "resolve"

\* C21: the propagation wait goes through the records in creation order: a
\* resolver query for a record is made only when every record created before
\* it has been observed propagated, and never for a record that has already
\* been observed propagated.
C21_SequentialPolling ==
    [][IsQuery =>
        /\ \A k \in 1..(lastCall'.rec - 1) : k \in observed
        /\ lastCall'.rec \notin observed]_vars

C21_Witness ==
    /\ lastCall.kind = "resolve"
    /\ lastCall.rec = 2
    /\ observed = {1}
    /\ now > QUERY_INTERVAL
    /\ pc = "sleeping"

\* The record of the run that carries the validation value of challenge ch
\* has been created and observed propagated.
RecordSeen(ch) ==
    \E k \in DOMAIN dns_records :
        /\ dns_records[k].data = Validation(ch)
        /\ dns_records[k].type = "TXT"
        /\ dns_records[k].id \in observed

\* C22: answer_challenge is called for a DNS-01 challenge only if a TXT
\* record carrying the validation value of that challenge was created and
\* observed propagated in the run, whatever the number of DNS-01 challenges
\* of the order and the number of domains.
C22_AnsweredOnlyIfPropagated ==
    \A i \in DOMAIN answered : RecordSeen(answered[i])

\* ----------------------------------------------- claims on the grouping
\* value is the validation of a DNS-01 challenge of the authorization issued
\* for the domain at position i.
TokenOfDomain(value, i) ==
    \E a \in DOMAIN acmeOrder :
        /\ acmeOrder[a].identifier = i
        /\ \E p \in DOMAIN acmeOrder[a].challenges :
            /\ acmeOrder[a].challenges[p] = "dns-01"
            /\ value = Validation([authz |-> a, pos |-> p])

\* C23: whatever the order in which the authorizations are listed, every
\* verification token pairs the verification DNS name of a domain with the
\* validation token of the DNS-01 challenge issued for that domain.
C23_TokenOfOwnChallenge ==
    \A i \in DOMAIN pairTokens :
        /\ pairTokens[i].fqdn = VerificationName(domains[i])
        /\ TokenOfDomain(pairTokens[i].value, i)

\* ------------------------------------- claims on the run and its provider
\* C24: every record a run passes to delete_record was written to the zone
\* by that run; a record that was in the zone before the run, one that
\* create_record returned because it matched included, is never deleted by
\* the cleanup of the run.
C24_OnlyWrittenRecordsAreDeleted ==
    \A r \in DOMAIN runs :
        \A i \in DOMAIN runs[r].log :
            runs[r].log[i].op = "delete"
                => runs[r].log[i].record.resource_id
                        \notin {StaleItem.id, LeftoverItem.id}

\* ------------------------------------------------ claims on the wait
\* C25: TimeoutError is raised for a record only after the resolver has been
\* queried at least once for that record, however long the waits for the
\* records before it lasted.
C25_TimeoutOnlyAfterQuery ==
    timeoutAt # -1 => dns_records[rec].id \in queried

\* --------------------------------------------- claims on the record name
\* C26: for a name of two labels or more, the record name sent to the API is
\* "@" when the name is its root domain, its last two labels, and otherwise
\* the name without its final ".<root domain>", also when the text of the
\* root domain occurs earlier in the name.
C26_RecordNameStripsSuffix ==
    nameSent # <<>> =>
        nameSent = IF fqdnArg = get_domain(fqdnArg) THEN <<"@">>
                   ELSE Take(fqdnArg, Len(fqdnArg) - Len(get_domain(fqdnArg)) - 1)

\* ------------------------------------- claims on the NS and SOA lookups
\* The number of labels of a name.
NumLabels(name) == Len(SplitDots(name))

\* A name without its leftmost label.
WithoutFirstLabel(name) == JoinDots(Tail(SplitDots(name)))

\* The lookup is an NS or SOA lookup.
Climbing == resolveArgs.record_type \in {"NS", "SOA"}

\* The queries of an NS or SOA lookup so far: the first for the name asked,
\* each later one for the name before it without its leftmost label and
\* sent after that one failed; at most one for each label; an answer ends
\* the lookup with its values; with no dot left and no answer the result is
\* the empty list.
ClimbInvariant ==
    Climbing =>
        /\ queryLog # <<>> => queryLog[1].name = resolveArgs.fqdn
        /\ \A k \in 1..(Len(queryLog) - 1) :
                /\ queryLog[k].kind \in QueryFailures
                /\ queryLog[k + 1].name = WithoutFirstLabel(queryLog[k].name)
        /\ Len(queryLog) <= NumLabels(resolveArgs.fqdn)
        /\ resolverPc = "climb"
                => Len(queryLog) + NumLabels(climbDomain)
                        = NumLabels(resolveArgs.fqdn)
        /\ (queryLog # <<>> /\ queryLog[Len(queryLog)].kind = "answer")
                => (resolverPc = "done" /\ resolveResult # <<>>)
        /\ (resolverPc = "done" /\ \A k \in DOMAIN queryLog :
                                        queryLog[k].kind \in QueryFailures)
                => resolveResult = <<>>

\* C27: an NS or SOA lookup climbs the hierarchy, removing the leftmost label
\* after each failed query, stops at the first level that answers, ends
\* after at most one query for each label of the name, and returns the empty
\* list when no level answers.
C27_ClimbingTerminates ==
    []ClimbInvariant /\ <>(resolverPc = "done")

C27_Witness ==
    /\ resolverPc = "done"
    /\ resolveArgs.record_type = "SOA"
    /\ NumLabels(resolveArgs.fqdn) = 3
    /\ Len(queryLog) = 2
    /\ queryLog[1].kind = "NXDOMAIN"
    /\ queryLog[2].kind = "answer"
    /\ queryLog[2].name = <<"a", ".", "i", "o">>
    /\ resolveResult # <<>>

\* ------------------------------------- claims on the record returned
\* C28: every record create_record returns, written by the call or found
\* in the zone, has the fqdn of the options, the name the propagation wait
\* then queries.
C28_ReturnedRecordHasOptionsFqdn ==
    (lastOp.op = "create" /\ lastOp.error = NoErr)
        => lastOp.record.fqdn = lastOp.fqdn

====
